---------------------------- MODULE Spec2Model ----------------------------
(***************************************************************************)
(* A model of the RISC-V teaching simulator: class RISCV_Simulator         *)
(* (reset, loadProgram, generateFakeBinary, getRegIndex, step) and the     *)
(* buttons that drive it.                                                  *)
(*                                                                         *)
(* Strings are sequences of one-character strings, so that trimming,       *)
(* splitting, upper-casing, digit extraction and parseInt are computed     *)
(* character by character as the JavaScript does.                          *)
(*                                                                         *)
(* A JavaScript Number is a record [kind, neg, mag]: kind is "num", "nan"  *)
(* or "undefined" (the value read from an absent array element or object   *)
(* property); for "num" the value is the integer (-1)^neg * mag, with mag  *)
(* a little-endian sequence of limbs in base 2^15 with no leading zero.    *)
(* Every arithmetic result is rounded to the 53-bit significand of an      *)
(* IEEE-754 double (round to nearest, ties to even), as the engine does.   *)
(* -0 is folded into 0: no expression of the program tells them apart.     *)
(* The elements of the Int32Array regs are integers in -2^31 .. 2^31-1.    *)
(***************************************************************************)
EXTENDS Integers, Sequences, FiniteSets, TLC

(***************************************************************************)
(* Natural numbers of any size: little-endian limbs in base 2^15.          *)
(***************************************************************************)
LimbBase == 2^15

Tl(s) == IF s = <<>> THEN <<>> ELSE Tail(s)

Front(s) == SubSeq(s, 1, Len(s) - 1)

RECURSIVE Trim0(_)
Trim0(m) == IF m = <<>> \/ m[Len(m)] # 0 THEN m ELSE Trim0(Front(m))

RECURSIVE MagOfNat(_)
MagOfNat(n) == IF n = 0 THEN <<>> ELSE <<n % LimbBase>> \o MagOfNat(n \div LimbBase)

RECURSIVE MagAddC(_, _, _)
MagAddC(a, b, c) ==
    IF a = <<>> /\ b = <<>>
    THEN (IF c = 0 THEN <<>> ELSE <<c>>)
    ELSE LET x == IF a = <<>> THEN 0 ELSE Head(a)
             y == IF b = <<>> THEN 0 ELSE Head(b)
             s == x + y + c
         IN  <<s % LimbBase>> \o MagAddC(Tl(a), Tl(b), s \div LimbBase)

MagAdd(a, b) == MagAddC(a, b, 0)

\* a - b for a >= b
RECURSIVE MagSubB(_, _, _)
MagSubB(a, b, borrow) ==
    IF a = <<>>
    THEN <<>>
    ELSE LET y == IF b = <<>> THEN 0 ELSE Head(b)
             d == Head(a) - y - borrow
         IN  <<d % LimbBase>> \o MagSubB(Tail(a), Tl(b), IF d < 0 THEN 1 ELSE 0)

MagSub(a, b) == Trim0(MagSubB(a, b, 0))

RECURSIVE MagLess(_, _)
MagLess(a, b) ==
    IF Len(a) # Len(b) THEN Len(a) < Len(b)
    ELSE IF a = <<>> THEN FALSE
    ELSE IF a[Len(a)] # b[Len(b)] THEN a[Len(a)] < b[Len(b)]
    ELSE MagLess(Front(a), Front(b))

\* a * m + c for 0 <= m <= 2^15, not trimmed
RECURSIVE MagMulSmallC(_, _, _)
MagMulSmallC(a, m, c) ==
    IF a = <<>>
    THEN (IF c = 0 THEN <<>> ELSE <<c % LimbBase>> \o MagMulSmallC(<<>>, m, c \div LimbBase))
    ELSE LET t == Head(a) * m + c
         IN  <<t % LimbBase>> \o MagMulSmallC(Tail(a), m, t \div LimbBase)

MagMulSmall(a, m, c) == Trim0(MagMulSmallC(a, m, c))

RECURSIVE MagMulR(_, _)
MagMulR(a, b) ==
    IF b = <<>>
    THEN <<>>
    ELSE MagAdd(MagMulSmallC(a, Head(b), 0), <<0>> \o MagMulR(a, Tail(b)))

MagMul(a, b) == Trim0(MagMulR(a, b))

\* floor(m / d) for 1 <= d <= 2^15, limbs taken from the most significant
RECURSIVE MagDivSmallR(_, _, _)
MagDivSmallR(m, d, r) ==
    IF m = <<>>
    THEN <<>>
    ELSE LET t == r * LimbBase + m[Len(m)]
         IN  MagDivSmallR(Front(m), d, t % d) \o <<t \div d>>

MagDivSmall(m, d) == Trim0(MagDivSmallR(m, d, 0))

RECURSIVE ShiftRight(_, _)
ShiftRight(m, s) ==
    IF s = 0 THEN m
    ELSE LET k == IF s < 15 THEN s ELSE 15
         IN  ShiftRight(MagDivSmall(m, 2^k), s - k)

RECURSIVE ShiftLeft(_, _)
ShiftLeft(m, s) ==
    IF s = 0 THEN m
    ELSE LET k == IF s < 15 THEN s ELSE 15
         IN  ShiftLeft(MagMulSmall(m, 2^k, 0), s - k)

RECURSIVE BitsOfNat(_)
BitsOfNat(n) == IF n = 0 THEN 0 ELSE 1 + BitsOfNat(n \div 2)

BitLen(m) == IF m = <<>> THEN 0 ELSE 15 * (Len(m) - 1) + BitsOfNat(m[Len(m)])

\* The nearest integer with a significand of at most 53 bits, ties to even:
\* the double that an integer result is stored as.
\* m = q * 2^s + r: up when r is above the half of 2^s, or is the half and q is odd
RoundsUp(r, half, q) == MagLess(half, r) \/ (r = half /\ q[1] % 2 = 1)

RoundQuotient(m, s, q) ==
    ShiftLeft(IF RoundsUp(MagSub(m, ShiftLeft(q, s)), ShiftLeft(<<1>>, s - 1), q)
              THEN MagAdd(q, <<1>>)
              ELSE q,
              s)

RoundShift(m, s) == RoundQuotient(m, s, ShiftRight(m, s))

RoundToDouble(m) == IF BitLen(m) <= 53 THEN m ELSE RoundShift(m, BitLen(m) - 53)

(***************************************************************************)
(* JavaScript Numbers and the operators the program applies to them.       *)
(***************************************************************************)
NaN == [kind |-> "nan", neg |-> FALSE, mag |-> <<>>]

Undefined == [kind |-> "undefined", neg |-> FALSE, mag |-> <<>>]

Num(neg, mag) == [kind |-> "num", neg |-> (neg /\ mag # <<>>), mag |-> mag]

Zero == Num(FALSE, <<>>)

IsNum(x) == x.kind = "num"

\* an element of the Int32Array as a Number
FromInt32(i) ==
    IF i >= 0
    THEN Num(FALSE, MagOfNat(i))
    ELSE Num(TRUE, MagAdd(MagOfNat(-(i + 1)), <<1>>))

\* x + y  (undefined converts to NaN)
JsAdd(x, y) ==
    IF ~IsNum(x) \/ ~IsNum(y) THEN NaN
    ELSE Num(IF x.neg = y.neg THEN x.neg
             ELSE IF MagLess(x.mag, y.mag) THEN y.neg ELSE x.neg,
             RoundToDouble(IF x.neg = y.neg THEN MagAdd(x.mag, y.mag)
                           ELSE IF MagLess(x.mag, y.mag) THEN MagSub(y.mag, x.mag)
                           ELSE MagSub(x.mag, y.mag)))

\* x - y
JsSub(x, y) == JsAdd(x, IF IsNum(y) THEN Num(~y.neg, y.mag) ELSE y)

\* x * y
JsMul(x, y) ==
    IF ~IsNum(x) \/ ~IsNum(y) THEN NaN
    ELSE Num(x.neg # y.neg, RoundToDouble(MagMul(x.mag, y.mag)))

\* x < y  (false when either side is NaN or undefined)
JsLess(x, y) ==
    IF ~IsNum(x) \/ ~IsNum(y) THEN FALSE
    ELSE IF x.neg # y.neg THEN x.neg
    ELSE IF x.neg THEN MagLess(y.mag, x.mag)
    ELSE MagLess(x.mag, y.mag)

\* ToInt32, the conversion of `x | 0` and of a store into the Int32Array:
\* NaN and undefined give 0, an integer is taken modulo 2^32 into
\* -2^31 .. 2^31-1.
Limb(m, i) == IF Len(m) >= i THEN m[i] ELSE 0

\* bits 30..31 (top) and 0..29 (low) of a two's-complement word as an integer
Signed32(top, low) == IF top >= 2 THEN (top - 4) * 2^30 + low ELSE top * 2^30 + low

\* the word of (-1)^neg * (top * 2^30 + low)
Word32(neg, top, low) ==
    Signed32(IF ~neg THEN top ELSE IF low = 0 THEN (4 - top) % 4 ELSE 3 - top,
             IF neg /\ low # 0 THEN 2^30 - low ELSE low)

ToInt32(x) ==
    IF ~IsNum(x) THEN 0
    ELSE Word32(x.neg, Limb(x.mag, 3) % 4, Limb(x.mag, 1) + Limb(x.mag, 2) * LimbBase)


(***************************************************************************)
(* Strings: sequences of one-character strings.                            *)
(***************************************************************************)
LowerCase == <<"a","b","c","d","e","f","g","h","i","j","k","l","m",
               "n","o","p","q","r","s","t","u","v","w","x","y","z">>

UpperCase == <<"A","B","C","D","E","F","G","H","I","J","K","L","M",
               "N","O","P","Q","R","S","T","U","V","W","X","Y","Z">>

Digits == <<"0","1","2","3","4","5","6","7","8","9">>

IndexIn(c, seq) == IF \E i \in 1..Len(seq) : seq[i] = c
                   THEN CHOOSE i \in 1..Len(seq) : seq[i] = c
                   ELSE 0

\* \s of a regular expression and the white space String.prototype.trim removes
IsSpace(c) == c \in {" ", "\t", "\r", "\n"}

IsDigit(c) == IndexIn(c, Digits) # 0

\* the value of c as a digit in the radix, or -1
RawDigit(d, l, u) ==
    IF d # 0 THEN d - 1
    ELSE IF l # 0 THEN 9 + l
    ELSE IF u # 0 THEN 9 + u
    ELSE -1

InRadix(v, radix) == IF v < radix THEN v ELSE -1

DigitValue(c, radix) ==
    InRadix(RawDigit(IndexIn(c, Digits), IndexIn(c, LowerCase), IndexIn(c, UpperCase)), radix)

UpperOf(c, l) == IF l # 0 THEN UpperCase[l] ELSE c

ToUpperCase(s) == [i \in 1..Len(s) |-> UpperOf(s[i], IndexIn(s[i], LowerCase))]

\* s.replace(/c/g, ' ')
ReplaceBySpace(s, c) == [i \in 1..Len(s) |-> IF s[i] = c THEN " " ELSE s[i]]

RECURSIVE TrimStart(_)
TrimStart(s) == IF s # <<>> /\ IsSpace(Head(s)) THEN TrimStart(Tail(s)) ELSE s

RECURSIVE TrimEnd(_)
TrimEnd(s) == IF s # <<>> /\ IsSpace(s[Len(s)]) THEN TrimEnd(Front(s)) ELSE s

\* String.prototype.trim
StrTrim(s) == TrimEnd(TrimStart(s))

\* s.startsWith(c) for a one-character c
StartsWith(s, c) == s # <<>> /\ Head(s) = c

\* the positions of the character c in s
PositionsOf(s, c) == {i \in 1..Len(s) : s[i] = c}

\* the k-th smallest element of a set of numbers
KthOf(P, k) == CHOOSE i \in P : Cardinality({j \in P : j < i}) = k - 1

\* the k-th piece of s between the separators at the positions P
PieceOf(s, P, k) ==
    SubSeq(s,
           IF k = 1 THEN 1 ELSE KthOf(P, k - 1) + 1,
           IF k = Cardinality(P) + 1 THEN Len(s) ELSE KthOf(P, k) - 1)

PiecesOf(s, P) == [k \in 1..(Cardinality(P) + 1) |-> PieceOf(s, P, k)]

\* text.split('\n'): the pieces between the separators, empty ones kept
SplitLines(text) == PiecesOf(text, PositionsOf(text, "\n"))

\* s.split(/\s+/): the pieces between the runs of white space; a leading or
\* trailing run leaves an empty first or last piece
RECURSIVE SplitSpacesR(_, _, _)
SplitSpacesR(s, cur, inRun) ==
    IF s = <<>> THEN <<cur>>
    ELSE IF IsSpace(Head(s))
         THEN (IF inRun THEN SplitSpacesR(Tail(s), cur, TRUE)
                        ELSE <<cur>> \o SplitSpacesR(Tail(s), <<>>, TRUE))
    ELSE SplitSpacesR(Tail(s), Append(cur, Head(s)), FALSE)

SplitSpaces(s) == SplitSpacesR(s, <<>>, FALSE)

\* s.split(' '): the pieces between single spaces
RECURSIVE SplitBlankR(_, _)
SplitBlankR(s, cur) ==
    IF s = <<>> THEN <<cur>>
    ELSE IF Head(s) = " " THEN <<cur>> \o SplitBlankR(Tail(s), <<>>)
    ELSE SplitBlankR(Tail(s), Append(cur, Head(s)))

SplitBlank(s) == SplitBlankR(s, <<>>)

\* s.replace(/[^0-9]/g, '')
OnlyDigits(s) == SelectSeq(s, IsDigit)

\* parts[i] of a JavaScript array (i from 0): the element, or undefined
\* beyond the end
PartAt(parts, i) ==
    IF i < Len(parts)
    THEN [defined |-> TRUE, str |-> parts[i + 1]]
    ELSE [defined |-> FALSE, str |-> <<>>]

\* the digits of s in the radix, from the left, up to the first other
\* character
RECURSIVE DigitPrefix(_, _), DigitPrefixFrom(_, _, _)
DigitPrefix(s, radix) ==
    IF s = <<>> THEN <<>> ELSE DigitPrefixFrom(DigitValue(Head(s), radix), Tail(s), radix)

DigitPrefixFrom(v, rest, radix) ==
    IF v >= 0 THEN <<v>> \o DigitPrefix(rest, radix) ELSE <<>>

RECURSIVE MagOfDigits(_, _, _)
MagOfDigits(ds, radix, acc) ==
    IF ds = <<>> THEN acc
    ELSE MagOfDigits(Tail(ds), radix, MagMulSmall(acc, radix, Head(ds)))

\* parseInt(string): leading white space, a sign, 0x or 0X for radix 16,
\* then the longest run of digits; NaN when there is none
ParseDigits(neg, ds, radix) ==
    IF ds = <<>> THEN NaN ELSE Num(neg, RoundToDouble(MagOfDigits(ds, radix, <<>>)))

ParseRadix(neg, s) ==
    IF Len(s) >= 2 /\ s[1] = "0" /\ s[2] \in {"x", "X"}
    THEN ParseDigits(neg, DigitPrefix(SubSeq(s, 3, Len(s)), 16), 16)
    ELSE ParseDigits(neg, DigitPrefix(s, 10), 10)

ParseSigned(s) ==
    ParseRadix(StartsWith(s, "-"),
               IF StartsWith(s, "-") \/ StartsWith(s, "+") THEN Tail(s) ELSE s)

ParseIntStr(str) == ParseSigned(TrimStart(str))

\* parseInt(v) for a string or undefined ("undefined" holds no digit)
ParseInt(v) == IF v.defined THEN ParseIntStr(v.str) ELSE NaN

(***************************************************************************)
(* The mnemonics step() recognizes.                                        *)
(***************************************************************************)
OpADD == <<"A","D","D">>

OpSUB == <<"S","U","B">>

OpAND == <<"A","N","D">>

OpOR == <<"O","R">>

OpSLT == <<"S","L","T">>

OpMULT == <<"M","U","L","T">>

OpSLL == <<"S","L","L">>

OpADDI == <<"A","D","D","I">>

OpSLTI == <<"S","L","T","I">>

OpLW == <<"L","W">>

OpSW == <<"S","W">>

OpPRINT == <<"P","R","I","N","T">>

RTypeOps == {OpADD, OpSUB, OpAND, OpOR, OpSLT, OpMULT, OpSLL}

ITypeOps == {OpADDI, OpSLTI}

(***************************************************************************)
(* The state of the page: the textarea #editor and the one simulator       *)
(* object cpu, with what the last call on it returned and the calls of     *)
(* step() made since the last loadProgram.                                 *)
(***************************************************************************)
VARIABLES
    editor,        \* the text in the textarea #editor
    pc,            \* cpu.pc
    regs,          \* cpu.regs, an Int32Array(32)
    instrMemory,   \* cpu.instrMemory, records {addr, text, binary}
    dataMemory,    \* cpu.dataMemory, an object: address -> value
    halted,        \* cpu.halted
    logs,          \* cpu.logs
    ret,           \* what the last call of loadProgram or step returned
    before,        \* the state the last call started from
    hist,          \* one record per recorded step() call since the last
                   \* loadProgram: the state it started from and whether it
                   \* returned a result
    loops,         \* one record per click on btn-run: the closure of its
                   \* setInterval callback
    script         \* the simulator object of src/script.js, given the same
                   \* calls as cpu

vars == <<editor, pc, regs, instrMemory, dataMemory, halted, logs, ret, before, hist, loops,
          script>>

NumRegs == 32

\* bounds of the model: the lines of a program text, and the step() calls
\* followed after one loadProgram
MaxLines == 3

MaxCalls == 5

PcStep == 4

RegIndices == 0..(NumRegs - 1)

ZeroRegs == [i \in RegIndices |-> 0]

\* {} : an object without own properties
EmptyMemory == [a \in {} |-> Zero]

(***************************************************************************)
(* generateFakeBinary: the display string of an instruction, looked up by  *)
(* the upper-cased first piece of the line with its commas made spaces.    *)
(***************************************************************************)
OpcodeOf(op) ==
    IF op \in {OpADD, OpSUB, OpAND, OpOR, OpSLT, OpMULT} THEN "0110011"
    ELSE IF op \in {OpADDI, OpSLTI} THEN "0010011"
    ELSE IF op = OpLW THEN "0000011"
    ELSE IF op = OpSW THEN "0100011"
    ELSE IF op = OpPRINT THEN "1110011"
    ELSE "0000000"

generateFakeBinary(instr) ==
    OpcodeOf(ToUpperCase(SplitSpaces(ReplaceBySpace(instr, ","))[1]))

(***************************************************************************)
(* getRegIndex(regName): the digits of the token parsed as an integer, 0   *)
(* when it has none.  regName.replace throws a TypeError when the token is *)
(* undefined (the line has no such operand).                               *)
(***************************************************************************)
\* isNaN(idx) ? 0 : idx
ZeroIfNaN(idx) == IF idx.kind = "nan" THEN Zero ELSE idx

getRegIndex(regName) ==
    IF ~regName.defined
    THEN [thrown |-> TRUE, idx |-> Zero]
    ELSE [thrown |-> FALSE, idx |-> ZeroIfNaN(ParseIntStr(OnlyDigits(regName.str)))]

\* idx is an index of an element of the Int32Array
IsRegIndex(idx) == IsNum(idx) /\ ~idx.neg /\ Len(idx.mag) <= 1
                   /\ (idx.mag = <<>> \/ idx.mag[1] < NumRegs)

RegNo(idx) == IF idx.mag = <<>> THEN 0 ELSE idx.mag[1]

\* this.regs[idx]: the element, or undefined beyond the array
RegRead(r, idx) == IF IsRegIndex(idx) THEN FromInt32(r[RegNo(idx)]) ELSE Undefined

\* this.regs[idx] = v for a Number v: converted by ToInt32; a store beyond
\* the array is ignored
RegWrite(r, idx, v) ==
    IF IsRegIndex(idx) THEN [r EXCEPT ![RegNo(idx)] = ToInt32(v)] ELSE r

\* a write back that does not look at rd
WriteBackUnguarded(r, rd, v) == RegWrite(r, rd, v)

\* if (rd !== 0) this.regs[rd] = v
WriteBack(r, rd, v) == IF rd # Zero THEN RegWrite(r, rd, v) ELSE r

\* this.dataMemory[addr]: properties are keyed by the address converted to a
\* string, which tells any two Numbers apart (and NaN from them all), so
\* the Number is the key.  The names Object.prototype defines are no
\* number.
MemRead(mem, addr) == IF addr \in DOMAIN mem THEN mem[addr] ELSE Undefined

\* this.dataMemory[addr] = v
MemWrite(mem, addr, v) ==
    [a \in DOMAIN mem \cup {addr} |-> IF a = addr THEN v ELSE mem[a]]

\* v || 0
OrZero(v) == IF ~IsNum(v) \/ v = Zero THEN Zero ELSE v

(***************************************************************************)
(* The bitwise operators on 32-bit integers.                               *)
(***************************************************************************)
RECURSIVE AndBits(_, _, _)
AndBits(a, b, n) ==
    IF n = 1 THEN -((a % 2) * (b % 2))
    ELSE (a % 2) * (b % 2) + 2 * AndBits(a \div 2, b \div 2, n - 1)

RECURSIVE OrBits(_, _, _)
OrBits(a, b, n) ==
    IF n = 1 THEN -((a % 2) + (b % 2) - (a % 2) * (b % 2))
    ELSE ((a % 2) + (b % 2) - (a % 2) * (b % 2)) + 2 * OrBits(a \div 2, b \div 2, n - 1)

\* a & b
JsAnd(a, b) == AndBits(ToInt32(a), ToInt32(b), 32)

\* a | b
JsOr(a, b) == OrBits(ToInt32(a), ToInt32(b), 32)

\* 2 * v modulo 2^32, in -2^31 .. 2^31-1
Double32(v) ==
    (2 * (v % 2^30) - ((v \div 2^30) % 2) * 2^30) - ((v \div 2^30) % 2) * 2^30

RECURSIVE Shl32(_, _)
Shl32(v, k) == IF k = 0 THEN v ELSE Shl32(Double32(v), k - 1)

\* a << b: the shift count is the low five bits of b
JsShl(a, b) == Shl32(ToInt32(a), ToInt32(b) % 32)

(***************************************************************************)
(* The body of the try block of step(): what executing the pieces of one   *)
(* line does to the registers and the data memory, the annotation it adds  *)
(* to the trace line, and whether it threw.                                *)
(***************************************************************************)
NoNote == [tag |-> "", val |-> Zero, addr |-> Zero]

Thrown(r, mem) == [thrown |-> TRUE, regs |-> r, mem |-> mem, note |-> NoNote]

Done(r, mem, note) == [thrown |-> FALSE, regs |-> r, mem |-> mem, note |-> note]

\* a SUB with its operands the wrong way round
AluRSwapped(op, v1, v2) ==
    IF op = OpADD THEN ToInt32(JsAdd(v1, v2))
    ELSE IF op = OpSUB THEN ToInt32(JsSub(v2, v1))
    ELSE IF op = OpMULT THEN ToInt32(JsMul(v1, v2))
    ELSE IF op = OpAND THEN JsAnd(v1, v2)
    ELSE IF op = OpOR THEN JsOr(v1, v2)
    ELSE IF op = OpSLT THEN (IF JsLess(v1, v2) THEN 1 ELSE 0)
    ELSE IF op = OpSLL THEN JsShl(v1, v2)
    ELSE 0

\* the result of a register-register operation, a 32-bit integer
AluR(op, v1, v2) ==
    IF op = OpADD THEN ToInt32(JsAdd(v1, v2))
    ELSE IF op = OpSUB THEN ToInt32(JsSub(v1, v2))
    ELSE IF op = OpMULT THEN ToInt32(JsMul(v1, v2))
    ELSE IF op = OpAND THEN JsAnd(v1, v2)
    ELSE IF op = OpOR THEN JsOr(v1, v2)
    ELSE IF op = OpSLT THEN (IF JsLess(v1, v2) THEN 1 ELSE 0)
    ELSE IF op = OpSLL THEN JsShl(v1, v2)
    ELSE 0

\* an SLTI that compares with <= for <
AluILessOrEqual(op, v1, imm) ==
    IF op = OpADDI THEN ToInt32(JsAdd(v1, imm))
    ELSE IF op = OpSLTI THEN (IF JsLess(v1, imm) \/ v1 = imm THEN 1 ELSE 0)
    ELSE 0

\* the result of a register-immediate operation
AluI(op, v1, imm) ==
    IF op = OpADDI THEN ToInt32(JsAdd(v1, imm))
    ELSE IF op = OpSLTI THEN (IF JsLess(v1, imm) THEN 1 ELSE 0)
    ELSE 0

RTypeDone(op, rd, rs1, rs2, r, mem) ==
    IF rd.thrown \/ rs1.thrown \/ rs2.thrown
    THEN Thrown(r, mem)
    ELSE Done(WriteBack(r, rd.idx,
                        FromInt32(AluR(op, RegRead(r, rs1.idx), RegRead(r, rs2.idx)))),
              mem, NoNote)

ExecRType(op, parts, r, mem) ==
    RTypeDone(op, getRegIndex(PartAt(parts, 1)), getRegIndex(PartAt(parts, 2)),
              getRegIndex(PartAt(parts, 3)), r, mem)

ITypeDone(op, rd, rs1, imm, r, mem) ==
    IF rd.thrown \/ rs1.thrown
    THEN Thrown(r, mem)
    ELSE Done(WriteBack(r, rd.idx, FromInt32(AluI(op, RegRead(r, rs1.idx), imm))),
              mem, NoNote)

ExecIType(op, parts, r, mem) ==
    ITypeDone(op, getRegIndex(PartAt(parts, 1)), getRegIndex(PartAt(parts, 2)),
              ParseInt(PartAt(parts, 3)), r, mem)

\* a load that keeps what it read in the data memory
LoadDoneCaching(rd, addr, val, r, mem) ==
    Done(WriteBack(r, rd.idx, val), MemWrite(mem, addr, val),
         [tag |-> "Leu", val |-> val, addr |-> addr])

\* val = this.dataMemory[addr] || 0, written to rd and put in the trace line
LoadDone(rd, addr, val, r, mem) ==
    Done(WriteBack(r, rd.idx, val), mem, [tag |-> "Leu", val |-> val, addr |-> addr])

LWAt(rd, rs1, addr, r, mem) ==
    IF rd.thrown \/ rs1.thrown
    THEN Thrown(r, mem)
    ELSE LoadDone(rd, addr, OrZero(MemRead(mem, addr)), r, mem)

LWDecoded(rd, rs1, offset, r, mem) ==
    LWAt(rd, rs1, JsAdd(RegRead(r, rs1.idx), offset), r, mem)

ExecLW(parts, r, mem) ==
    LWDecoded(getRegIndex(PartAt(parts, 1)), getRegIndex(PartAt(parts, 2)),
              ParseInt(PartAt(parts, 3)), r, mem)

\* this.dataMemory[addr] = this.regs[rs2]
StoreDone(addr, val, r, mem) ==
    Done(r, MemWrite(mem, addr, val), [tag |-> "Salvou", val |-> val, addr |-> addr])

\* a store that leaves the offset out of the address
SWDecodedNoOffset(rs2, rs1, offset, r, mem) ==
    IF rs2.thrown \/ rs1.thrown
    THEN Thrown(r, mem)
    ELSE StoreDone(RegRead(r, rs1.idx), RegRead(r, rs2.idx), r, mem)

SWDecoded(rs2, rs1, offset, r, mem) ==
    IF rs2.thrown \/ rs1.thrown
    THEN Thrown(r, mem)
    ELSE StoreDone(JsAdd(RegRead(r, rs1.idx), offset), RegRead(r, rs2.idx), r, mem)

ExecSW(parts, r, mem) ==
    SWDecoded(getRegIndex(PartAt(parts, 1)), getRegIndex(PartAt(parts, 2)),
              ParseInt(PartAt(parts, 3)), r, mem)

PrintDone(reg, r, mem) ==
    IF reg.thrown
    THEN Thrown(r, mem)
    ELSE Done(r, mem, [tag |-> "SAIDA", val |-> RegRead(r, reg.idx), addr |-> Zero])

ExecPRINT(parts, r, mem) == PrintDone(getRegIndex(PartAt(parts, 1)), r, mem)

\* the pieces of a line: commas and parentheses made spaces, split at white space
Decode(text) ==
    SplitSpaces(ReplaceBySpace(ReplaceBySpace(ReplaceBySpace(text, ","), "("), ")"))

\* a dispatch that throws on a mnemonic it does not know
DispatchRejecting(op, parts, r, mem) ==
    IF op \in RTypeOps THEN ExecRType(op, parts, r, mem)
    ELSE IF op \in ITypeOps THEN ExecIType(op, parts, r, mem)
    ELSE IF op = OpLW THEN ExecLW(parts, r, mem)
    ELSE IF op = OpSW THEN ExecSW(parts, r, mem)
    ELSE IF op = OpPRINT THEN ExecPRINT(parts, r, mem)
    ELSE Thrown(r, mem)

Dispatch(op, parts, r, mem) ==
    IF op \in RTypeOps THEN ExecRType(op, parts, r, mem)
    ELSE IF op \in ITypeOps THEN ExecIType(op, parts, r, mem)
    ELSE IF op = OpLW THEN ExecLW(parts, r, mem)
    ELSE IF op = OpSW THEN ExecSW(parts, r, mem)
    ELSE IF op = OpPRINT THEN ExecPRINT(parts, r, mem)
    ELSE Done(r, mem, NoNote)

Execute(parts, r, mem) == Dispatch(ToUpperCase(parts[1]), parts, r, mem)

(***************************************************************************)
(* loadProgram: the accepted lines of the text, at addresses 0, 4, 8, ...  *)
(***************************************************************************)
RECURSIVE AssembleLines(_, _), AssembleLine(_, _, _)
AssembleLines(lines, currentAddr) ==
    IF lines = <<>>
    THEN <<>>
    ELSE AssembleLine(StrTrim(Head(lines)), Tail(lines), currentAddr)

\* a loader where a skipped line takes an address too
AssembleLineCounting(cleanLine, rest, currentAddr) ==
    IF cleanLine # <<>> /\ ~StartsWith(cleanLine, "#")
    THEN <<[addr   |-> currentAddr,
            text   |-> cleanLine,
            binary |-> generateFakeBinary(cleanLine)]>>
         \o AssembleLines(rest, currentAddr + PcStep)
    ELSE AssembleLines(rest, currentAddr + PcStep)

\* one line, trimmed: skipped when empty or a comment, else pushed
AssembleLine(cleanLine, rest, currentAddr) ==
    IF cleanLine # <<>> /\ ~StartsWith(cleanLine, "#")
    THEN <<[addr   |-> currentAddr,
            text   |-> cleanLine,
            binary |-> generateFakeBinary(cleanLine)]>>
         \o AssembleLines(rest, currentAddr + PcStep)
    ELSE AssembleLines(rest, currentAddr)

Assemble(text) == AssembleLines(SplitLines(text), 0)

\* the entries of the trace
\* "Programa carregado. PC inicializado em 0.": a fixed message
LogLoaded == [kind |-> "loaded", shown |-> {}, pc |-> 0, text |-> <<>>, note |-> NoNote]

\* "Fim do programa (PC sem instrucao correspondente).": a fixed message
LogEnd == [kind |-> "end", shown |-> {}, pc |-> 0, text |-> <<>>, note |-> NoNote]

\* logMsg: pc, the text of the instruction and what LW, SW or PRINT added
LogStep(p, text, note) ==
    [kind |-> "step", shown |-> {"pc", "text"}, pc |-> p, text |-> text, note |-> note]

\* the line of the catch: pc and the message of the exception, which is that
\* of the TypeError of getRegIndex and holds no text of the program
LogError(p) == [kind |-> "error", shown |-> {"pc"}, pc |-> p, text |-> <<>>, note |-> NoNote]

\* what a call returned: undefined, false, or {executed: true, binary}
RetNone == [call |-> "new", ok |-> FALSE, binary |-> ""]

RetLoad == [call |-> "loadProgram", ok |-> FALSE, binary |-> ""]

RetFalse == [call |-> "step", ok |-> FALSE, binary |-> ""]

RetExecuted(binary) == [call |-> "step", ok |-> TRUE, binary |-> binary]

\* the state a call starts from: the fields, the number of instructions and
\* the kind of the last entry of the trace
Here ==
    [pc |-> pc, regs |-> regs, mem |-> dataMemory, halted |-> halted,
     ninstr |-> Len(instrMemory),
     last |-> IF logs = <<>> THEN "" ELSE logs[Len(logs)].kind]

\* the state a step() call starts from, and whether it returned a result
Snapshot(ok) ==
    [pc |-> pc, regs |-> regs, mem |-> dataMemory, halted |-> halted,
     nlogs |-> Len(logs), ok |-> ok]

\* the first instruction at address p: its index in instrMemory, or 0
FindInstr(im, p) ==
    IF \E i \in 1..Len(im) : im[i].addr = p
    THEN CHOOSE i \in 1..Len(im) : im[i].addr = p /\ \A j \in 1..(i - 1) : im[j].addr # p
    ELSE 0

(***************************************************************************)
(* The simulator of src/script.js.  Its getRegIndex, its decoding and its  *)
(* SW and PRINT branches have the text of the ones above; its arithmetic   *)
(* branch, its LW branch and its generateFakeBinary are its own.  Its log  *)
(* and updateMemoryView write to the elements #log-container and           *)
(* #memory-view of the page, which the page has.  The object is a record:  *)
(* its fields, and ok: whether the last call returned a result.            *)
(***************************************************************************)
OpBEQ == <<"B","E","Q">>

\* opcodes[op] || '0000000'
ScriptOpcodeOf(op) ==
    IF op \in {OpADD, OpSUB} THEN "0110011"
    ELSE IF op = OpLW THEN "0000011"
    ELSE IF op = OpSW THEN "0100011"
    ELSE IF op = OpADDI THEN "0010011"
    ELSE IF op = OpBEQ THEN "1100011"
    ELSE "0000000"

\* generateFakeBinary: the mnemonic is what precedes the first blank
ScriptFakeBinary(instr) == ScriptOpcodeOf(ToUpperCase(SplitBlank(instr)[1]))

RECURSIVE ScriptAssembleLines(_, _), ScriptAssembleLine(_, _, _)
ScriptAssembleLines(lines, currentAddr) ==
    IF lines = <<>>
    THEN <<>>
    ELSE ScriptAssembleLine(StrTrim(Head(lines)), Tail(lines), currentAddr)

ScriptAssembleLine(cleanLine, rest, currentAddr) ==
    IF cleanLine # <<>> /\ ~StartsWith(cleanLine, "#")
    THEN <<[addr   |-> currentAddr,
            text   |-> cleanLine,
            binary |-> ScriptFakeBinary(cleanLine)]>>
         \o ScriptAssembleLines(rest, currentAddr + 4)
    ELSE ScriptAssembleLines(rest, currentAddr)

\* reset()
ScriptReset ==
    [pc |-> 0, regs |-> ZeroRegs, instrMemory |-> <<>>, dataMemory |-> EmptyMemory,
     halted |-> TRUE, ok |-> FALSE]

ScriptLoaded(im) ==
    [pc |-> 0, regs |-> ZeroRegs, instrMemory |-> im, dataMemory |-> EmptyMemory,
     halted |-> ~(Len(im) > 0), ok |-> FALSE]

\* loadProgram(text)
ScriptLoadProgram(text) == ScriptLoaded(ScriptAssembleLines(SplitLines(text), 0))

\* let res = 0, then one if per mnemonic
ScriptAluI(op, v1, imm) ==
    IF op = OpSLTI THEN (IF JsLess(v1, imm) THEN 1 ELSE 0)
    ELSE IF op = OpADDI THEN ToInt32(JsAdd(v1, imm))
    ELSE 0

ScriptAluR(op, v1, v2) ==
    IF op = OpSLL THEN JsShl(v1, v2)
    ELSE IF op = OpSLT THEN (IF JsLess(v1, v2) THEN 1 ELSE 0)
    ELSE IF op = OpOR THEN JsOr(v1, v2)
    ELSE IF op = OpAND THEN JsAnd(v1, v2)
    ELSE IF op = OpMULT THEN ToInt32(JsMul(v1, v2))
    ELSE IF op = OpSUB THEN ToInt32(JsSub(v1, v2))
    ELSE IF op = OpADD THEN ToInt32(JsAdd(v1, v2))
    ELSE 0

\* the register-register side of the branch: rs2 is resolved after rd and rs1
ScriptRegDone(op, rd, rs1, rs2, r, mem) ==
    IF rs2.thrown
    THEN Thrown(r, mem)
    ELSE Done(WriteBack(r, rd.idx,
                        FromInt32(ScriptAluR(op, RegRead(r, rs1.idx), RegRead(r, rs2.idx)))),
              mem, NoNote)

\* a branch that takes a missing third operand of a register-register
\* operation for register 0
ScriptArithDoneLenient(op, rd, rs1, parts, r, mem) ==
    IF rd.thrown \/ rs1.thrown
    THEN Thrown(r, mem)
    ELSE IF op \in {OpADDI, OpSLTI}
    THEN Done(WriteBack(r, rd.idx,
                        FromInt32(ScriptAluI(op, RegRead(r, rs1.idx), ParseInt(PartAt(parts, 3))))),
              mem, NoNote)
    ELSE Done(WriteBack(r, rd.idx,
                        FromInt32(ScriptAluR(op, RegRead(r, rs1.idx),
                                             IF PartAt(parts, 3).defined
                                             THEN RegRead(r, getRegIndex(PartAt(parts, 3)).idx)
                                             ELSE Zero))),
              mem, NoNote)

\* the one branch of the arithmetic and logic operations: rd and rs1, then
\* the immediate for ADDI and SLTI and rs2 for the others
ScriptArithDone(op, rd, rs1, parts, r, mem) ==
    IF rd.thrown \/ rs1.thrown
    THEN Thrown(r, mem)
    ELSE IF op \in {OpADDI, OpSLTI}
    THEN Done(WriteBack(r, rd.idx,
                        FromInt32(ScriptAluI(op, RegRead(r, rs1.idx), ParseInt(PartAt(parts, 3))))),
              mem, NoNote)
    ELSE ScriptRegDone(op, rd, rs1, getRegIndex(PartAt(parts, 3)), r, mem)

ScriptExecArith(op, parts, r, mem) ==
    ScriptArithDone(op, getRegIndex(PartAt(parts, 1)), getRegIndex(PartAt(parts, 2)),
                    parts, r, mem)

\* LW: rd, then parts[2].includes('('), which throws on undefined and
\* chooses nothing, then rs1 and the offset
ScriptLWDecoded(rd, parts, r, mem) ==
    IF rd.thrown \/ ~PartAt(parts, 2).defined
    THEN Thrown(r, mem)
    ELSE LWDecoded(rd, getRegIndex(PartAt(parts, 2)), ParseInt(PartAt(parts, 3)), r, mem)

ScriptExecLW(parts, r, mem) == ScriptLWDecoded(getRegIndex(PartAt(parts, 1)), parts, r, mem)

ScriptDispatch(op, parts, r, mem) ==
    IF op \in RTypeOps \cup ITypeOps THEN ScriptExecArith(op, parts, r, mem)
    ELSE IF op = OpLW THEN ScriptExecLW(parts, r, mem)
    ELSE IF op = OpSW THEN ExecSW(parts, r, mem)
    ELSE IF op = OpPRINT THEN ExecPRINT(parts, r, mem)
    ELSE Done(r, mem, NoNote)

ScriptExecute(parts, r, mem) == ScriptDispatch(ToUpperCase(parts[1]), parts, r, mem)

\* the end of the try block, or the catch
ScriptFinish(o, e) ==
    IF e.thrown
    THEN [o EXCEPT !.halted = TRUE, !.ok = FALSE]
    ELSE [o EXCEPT !.regs = e.regs, !.dataMemory = e.mem, !.pc = @ + 4, !.ok = TRUE]

ScriptRun(o, currentInstr) ==
    ScriptFinish(o, ScriptExecute(Decode(currentInstr.text), o.regs, o.dataMemory))

\* step()
ScriptStep(o) ==
    IF o.halted THEN [o EXCEPT !.ok = FALSE]
    ELSE IF FindInstr(o.instrMemory, o.pc) = 0
    THEN [o EXCEPT !.halted = TRUE, !.ok = FALSE]
    ELSE ScriptRun(o, o.instrMemory[FindInstr(o.instrMemory, o.pc)])

(***************************************************************************)
(* The operations.                                                         *)
(***************************************************************************)
\* a reset() that keeps the data memory
LoadedKeepingMemory(im) ==
    /\ pc' = 0
    /\ regs' = ZeroRegs
    /\ instrMemory' = im
    /\ UNCHANGED dataMemory
    /\ halted' = ~(Len(im) > 0)
    /\ logs' = <<LogLoaded>>
    /\ ret' = RetLoad
    /\ before' = Here
    /\ hist' = <<>>
    /\ UNCHANGED loops

\* cpu.loadProgram(text): reset(), the accepted lines, halted, one trace line
Loaded(im) ==
    /\ pc' = 0
    /\ regs' = ZeroRegs
    /\ instrMemory' = im
    /\ dataMemory' = EmptyMemory
    /\ halted' = ~(Len(im) > 0)
    /\ logs' = <<LogLoaded>>
    /\ ret' = RetLoad
    /\ before' = Here
    /\ hist' = <<>>
    /\ UNCHANGED loops

loadProgram(text) == Loaded(Assemble(text))

\* the click on btn-load: the program in the editor is loaded
Load ==
    /\ loadProgram(editor)
    /\ UNCHANGED <<editor, script>>

\* the model follows at most MaxCalls calls of step() after a loadProgram
CallsLeft == Len(hist) < MaxCalls

\* a step() without the early return, which goes on to report the end
StepHaltedFallsThrough ==
    /\ CallsLeft
    /\ halted
    /\ logs' = Append(logs, LogEnd)
    /\ ret' = RetFalse
    /\ before' = Here
    /\ hist' = Append(hist, Snapshot(FALSE))
    /\ UNCHANGED <<editor, pc, regs, instrMemory, dataMemory, halted, loops, script>>

\* step() on a halted machine: the early return
HaltedReturn ==
    /\ halted
    /\ ret' = RetFalse
    /\ before' = Here
    /\ UNCHANGED <<editor, pc, regs, instrMemory, dataMemory, halted, logs>>

\* cpu.step() on a halted machine, called by btn-step and recorded
StepHalted ==
    /\ CallsLeft
    /\ HaltedReturn
    /\ hist' = Append(hist, Snapshot(FALSE))
    /\ UNCHANGED <<loops, script>>

\* a fetch miss that reports the end but does not halt
StepFetchMissStaysRunning ==
    /\ CallsLeft
    /\ ~halted
    /\ FindInstr(instrMemory, pc) = 0
    /\ logs' = Append(logs, LogEnd)
    /\ ret' = RetFalse
    /\ before' = Here
    /\ hist' = Append(hist, Snapshot(FALSE))
    /\ UNCHANGED <<editor, pc, regs, instrMemory, dataMemory, halted, loops, script>>

\* an end of the program that is reported and does not halt
FetchMissStaysRunning ==
    /\ ~halted
    /\ FindInstr(instrMemory, pc) = 0
    /\ logs' = Append(logs, LogEnd)
    /\ ret' = RetFalse
    /\ before' = Here
    /\ UNCHANGED <<editor, pc, regs, instrMemory, dataMemory, halted>>

\* step() with no instruction at pc: the end of the program
FetchMiss ==
    /\ ~halted
    /\ FindInstr(instrMemory, pc) = 0
    /\ halted' = TRUE
    /\ logs' = Append(logs, LogEnd)
    /\ ret' = RetFalse
    /\ before' = Here
    /\ UNCHANGED <<editor, pc, regs, instrMemory, dataMemory>>

\* cpu.step() with no instruction at pc, called by btn-step and recorded
StepFetchMiss ==
    /\ CallsLeft
    /\ FetchMiss
    /\ hist' = Append(hist, Snapshot(FALSE))
    /\ UNCHANGED <<loops, script>>

\* a step() that moves pc on in the catch too
FinishAlwaysAdvancing(currentInstr, e) ==
    IF e.thrown
    THEN /\ logs' = Append(logs, LogError(pc))
         /\ halted' = TRUE
         /\ pc' = pc + PcStep
         /\ ret' = RetFalse
         /\ hist' = Append(hist, Snapshot(FALSE))
         /\ UNCHANGED <<regs, dataMemory>>
    ELSE /\ regs' = e.regs
         /\ dataMemory' = e.mem
         /\ logs' = Append(logs, LogStep(pc, currentInstr.text, e.note))
         /\ pc' = pc + PcStep
         /\ ret' = RetExecuted(currentInstr.binary)
         /\ hist' = Append(hist, Snapshot(TRUE))
         /\ UNCHANGED halted

\* a catch that halts without a line in the trace
FinishSilentCatch(currentInstr, e) ==
    IF e.thrown
    THEN /\ halted' = TRUE
         /\ ret' = RetFalse
         /\ hist' = Append(hist, Snapshot(FALSE))
         /\ UNCHANGED <<pc, regs, dataMemory, logs>>
    ELSE /\ regs' = e.regs
         /\ dataMemory' = e.mem
         /\ logs' = Append(logs, LogStep(pc, currentInstr.text, e.note))
         /\ pc' = pc + PcStep
         /\ ret' = RetExecuted(currentInstr.binary)
         /\ hist' = Append(hist, Snapshot(TRUE))
         /\ UNCHANGED halted

\* a success that leaves pc where it is
FinishedStaying(currentInstr, e) ==
    IF e.thrown
    THEN /\ logs' = Append(logs, LogError(pc))
         /\ halted' = TRUE
         /\ ret' = RetFalse
         /\ UNCHANGED <<pc, regs, dataMemory>>
    ELSE /\ regs' = e.regs
         /\ dataMemory' = e.mem
         /\ logs' = Append(logs, LogStep(pc, currentInstr.text, e.note))
         /\ ret' = RetExecuted(currentInstr.binary)
         /\ UNCHANGED <<pc, halted>>

\* a catch that clears the registers
FinishClearing(currentInstr, e) ==
    IF e.thrown
    THEN /\ logs' = Append(logs, LogError(pc))
         /\ halted' = TRUE
         /\ ret' = RetFalse
         /\ regs' = ZeroRegs
         /\ hist' = Append(hist, Snapshot(FALSE))
         /\ UNCHANGED <<pc, dataMemory>>
    ELSE /\ regs' = e.regs
         /\ dataMemory' = e.mem
         /\ logs' = Append(logs, LogStep(pc, currentInstr.text, e.note))
         /\ pc' = pc + PcStep
         /\ ret' = RetExecuted(currentInstr.binary)
         /\ hist' = Append(hist, Snapshot(TRUE))
         /\ UNCHANGED halted

\* the try block and what follows it: the trace line, pc += 4 and the result,
\* or in the catch the error line, halted and false
Finished(currentInstr, e) ==
    IF e.thrown
    THEN /\ logs' = Append(logs, LogError(pc))
         /\ halted' = TRUE
         /\ ret' = RetFalse
         /\ UNCHANGED <<pc, regs, dataMemory>>
    ELSE /\ regs' = e.regs
         /\ dataMemory' = e.mem
         /\ logs' = Append(logs, LogStep(pc, currentInstr.text, e.note))
         /\ pc' = pc + PcStep
         /\ ret' = RetExecuted(currentInstr.binary)
         /\ UNCHANGED halted

\* the same, recorded
Finish(currentInstr, e) ==
    /\ Finished(currentInstr, e)
    /\ hist' = Append(hist, Snapshot(~e.thrown))

Ran(currentInstr) ==
    Finished(currentInstr, Execute(Decode(currentInstr.text), regs, dataMemory))

Run(currentInstr) ==
    Finish(currentInstr, Execute(Decode(currentInstr.text), regs, dataMemory))

\* step() executing the instruction at pc
Executed ==
    /\ ~halted
    /\ FindInstr(instrMemory, pc) # 0
    /\ Ran(instrMemory[FindInstr(instrMemory, pc)])
    /\ before' = Here
    /\ UNCHANGED <<editor, instrMemory>>

\* cpu.step() executing the instruction at pc, called by btn-step and recorded
StepExecute ==
    /\ CallsLeft
    /\ ~halted
    /\ FindInstr(instrMemory, pc) # 0
    /\ Run(instrMemory[FindInstr(instrMemory, pc)])
    /\ before' = Here
    /\ UNCHANGED <<editor, instrMemory, loops, script>>

\* loadExample: a text is put in the editor and btn-load clicked
LoadText(text) ==
    /\ editor' = text
    /\ loadProgram(text)
    /\ UNCHANGED script

\* cpu.step(), as the Step button and the timer of Run call it
Step ==
    \/ StepHalted
    \/ StepFetchMiss
    \/ StepExecute

\* cpu.step() as any callback calls it; a callback runs to completion before
\* the next one starts, so each call is one step of the model
cpuStep ==
    \/ HaltedReturn
    \/ FetchMiss
    \/ Executed

\* the click on btn-step, not recorded in hist
ClickStep ==
    /\ cpuStep
    /\ UNCHANGED <<hist, loops, script>>

\* the safety limit of the run loop
RunLimit == 1000

\* the largest number of run loops the model starts
MaxLoops == 2

\* let steps = 0; const interval = setInterval(...): calls counts the calls
\* of step() the callback has made
NewLoop == [active |-> TRUE, steps |-> 0, calls |-> 0]

\* the callback after its call of step(): steps++ if the call returned a
\* result and steps < 1000, clearInterval(interval) otherwise
Ticked(loop, result) ==
    IF result /\ loop.steps < RunLimit
    THEN [loop EXCEPT !.steps = @ + 1, !.calls = @ + 1]
    ELSE [loop EXCEPT !.active = FALSE, !.calls = @ + 1]

\* the click on btn-run: a new counter and a new interval
ClickRun ==
    /\ Len(loops) < MaxLoops
    /\ loops' = Append(loops, NewLoop)
    /\ UNCHANGED <<editor, pc, regs, instrMemory, dataMemory, halted, logs, ret, before, hist,
                   script>>

\* one firing of the interval of loop i
Tick(i) ==
    /\ i \in 1..Len(loops)
    /\ loops[i].active
    /\ cpuStep
    /\ loops' = [loops EXCEPT ![i] = Ticked(loops[i], ret'.ok)]
    /\ UNCHANGED <<hist, script>>

\* the click on btn-load with both scripts
BothLoad ==
    /\ loadProgram(editor)
    /\ script' = ScriptLoadProgram(editor)
    /\ UNCHANGED editor

\* the click on btn-step with both scripts
BothStep ==
    /\ CallsLeft
    /\ cpuStep
    /\ hist' = Append(hist, Snapshot(ret'.ok))
    /\ script' = ScriptStep(script)
    /\ UNCHANGED loops

\* new RISCV_Simulator(): reset()
Constructed ==
    /\ pc = 0
    /\ regs = ZeroRegs
    /\ instrMemory = <<>>
    /\ dataMemory = EmptyMemory
    /\ halted = TRUE
    /\ logs = <<>>
    /\ ret = RetNone
    /\ before = Here
    /\ hist = <<>>
    /\ loops = <<>>
    /\ script = ScriptReset

(***************************************************************************)
(* The program texts put in the editor: up to MaxLines lines of a pool,    *)
(* joined by line breaks.                                                  *)
(***************************************************************************)
RECURSIVE JoinLines(_)
JoinLines(ls) ==
    IF ls = <<>> THEN <<>>
    ELSE IF Len(ls) = 1 THEN ls[1]
    ELSE ls[1] \o <<"\n">> \o JoinLines(Tail(ls))

TextsOf(pool, n) ==
    { JoinLines(ls) : ls \in UNION { [1..k -> {pool[i] : i \in 1..Len(pool)}] : k \in 0..n } }

\* a comment line, the three families that write a register with destination
\* tokens that resolve to register 0 (plain, with leading zeros, without
\* digits), a non-numeric immediate, a missing operand, a store
Lines == <<
    <<" "," ","#"," ","n","o","t","a">>,
    <<"a","d","d","i"," ","x","1",","," ","x","0",","," ","7">>,
    <<"A","D","D","I"," ","x","0",","," ","x","1",","," ","5">>,
    <<"A","D","D"," ","x","0","0",","," ","x","1",","," ","x","1">>,
    <<"L","W"," ","z","e","r","o",","," ","x","1",","," ","4">>,
    <<"A","D","D","I"," ","x","2",","," ","x","0",","," ","a","b","c">>,
    <<"A","D","D"," ","x","3",","," ","x","1">>,
    <<"S","W"," ","x","1",","," ","x","1",","," ","4">> >>

Init ==
    /\ editor \in TextsOf(Lines, MaxLines)
    /\ Constructed

Next == Load \/ Step

Spec == Init /\ [][Next]_vars

(***************************************************************************)
(* The editor rewritten between loads: any text of up to MaxEditLines      *)
(* lines of a pool is put in the editor and loaded, in any state.          *)
(***************************************************************************)
MaxEditLines == 2

\* a comment, a line that writes a register, one that writes the data
\* memory, one that faults
EditLines == <<
    <<" ","#"," ","c">>,
    <<"A","D","D","I"," ","x","1",","," ","x","0",","," ","7">>,
    <<"S","W"," ","x","1",","," ","x","1",","," ","4">>,
    <<"A","D","D"," ","x","3">> >>

InitEdit ==
    /\ editor = <<>>
    /\ Constructed

LoadAny == \E text \in TextsOf(EditLines, MaxEditLines) : LoadText(text)

NextEdit == LoadAny \/ Step

SpecEdit == InitEdit /\ [][NextEdit]_vars

(***************************************************************************)
(* Programs that store a register and load it back, with register tokens   *)
(* inside and outside the register file and an offset that is no number.   *)
(***************************************************************************)
RoundTripLines == <<
    <<"A","D","D","I"," ","x","1",","," ","x","1",","," ","9","9">>,
    <<"S","W"," ","x","1",","," ","x","1",","," ","4">>,
    <<"L","W"," ","x","3",","," ","x","1",","," ","4">>,
    <<"L","W"," ","x","0",","," ","x","1",","," ","4">>,
    <<"L","W"," ","x","3","5",","," ","x","1",","," ","4">>,
    <<"S","W"," ","x","4","0",","," ","x","2",","," ","k","9">>,
    <<"L","W"," ","x","3",","," ","x","2",","," ","k","9">>,
    <<"S","W"," ","x","1",","," ","x","2",","," ","k","9">> >>

InitRoundTrip ==
    /\ editor \in TextsOf(RoundTripLines, MaxLines)
    /\ Constructed

SpecRoundTrip == InitRoundTrip /\ [][Next]_vars

(***************************************************************************)
(* Programs of up to MaxMemLines lines that store, load, compute, print    *)
(* and hold a mnemonic step() does not know.                               *)
(***************************************************************************)
MaxMemLines == 4

\* ADDI moves the base of the load; the store writes x2 at address 8
MemLines == <<
    <<"A","D","D","I"," ","x","2",","," ","x","2",","," ","4">>,
    <<"S","W"," ","x","2",","," ","x","0",","," ","8">>,
    <<"L","W"," ","x","3",","," ","x","2",","," ","4">>,
    <<"P","R","I","N","T"," ","x","3">>,
    <<"B","E","Q"," ","x","1",","," ","x","0",","," ","8">> >>

InitMem ==
    /\ editor \in TextsOf(MemLines, MaxMemLines)
    /\ Constructed

SpecMem == InitMem /\ [][Next]_vars

(***************************************************************************)
(* Programs that add and subtract at the ends of the 32-bit range, with    *)
(* immediates up to 2^53 + 1.                                              *)
(***************************************************************************)
ArithLines == <<
    <<"A","D","D","I"," ","x","1",","," ","x","0",","," ","2","1","4","7","4","8","3","6","4","7">>,
    <<"A","D","D","I"," ","x","2",","," ","x","0",","," ","-","2","1","4","7","4","8","3","6","4","8">>,
    <<"A","D","D","I"," ","x","1",","," ","x","1",","," ","1">>,
    <<"A","D","D"," ","x","3",","," ","x","1",","," ","x","1">>,
    <<"S","U","B"," ","x","3",","," ","x","2",","," ","x","1">>,
    <<"A","D","D"," ","x","3",","," ","x","2",","," ","x","2">>,
    <<"A","D","D","I"," ","x","3",","," ","x","1",","," ","9","0","0","7","1","9","9","2","5","4","7","4","0","9","9","3">>,
    <<"A","D","D","I"," ","x","3",","," ","x","2",","," ","-","4","2","9","4","9","6","7","2","9","7">> >>

InitArith ==
    /\ editor \in TextsOf(ArithLines, MaxLines)
    /\ Constructed

SpecArith == InitArith /\ [][Next]_vars

(***************************************************************************)
(* Programs that compare: a negative and the largest register value, an    *)
(* immediate beyond 64 bits, a source token beyond the register file.      *)
(***************************************************************************)
CompareLines == <<
    <<"A","D","D","I"," ","x","1",","," ","x","0",","," ","-","5">>,
    <<"A","D","D","I"," ","x","2",","," ","x","0",","," ","2","1","4","7","4","8","3","6","4","7">>,
    <<"S","L","T"," ","x","3",","," ","x","1",","," ","x","2">>,
    <<"S","L","T"," ","x","3",","," ","x","2",","," ","x","1">>,
    <<"S","L","T","I"," ","x","3",","," ","x","1",","," ","-","5">>,
    <<"S","L","T","I"," ","x","3",","," ","x","2",","," ","9","9","9","9","9","9","9","9","9","9","9","9","9","9","9","9","9","9","9","9">>,
    <<"S","L","T"," ","x","3",","," ","x","1",","," ","x","4","0">>,
    <<"S","L","T","I"," ","x","3",","," ","x","1",","," ","3">> >>

InitCompare ==
    /\ editor \in TextsOf(CompareLines, MaxLines)
    /\ Constructed

SpecCompare == InitCompare /\ [][Next]_vars

(***************************************************************************)
(* Programs with mnemonics step() does not know, followed by register      *)
(* tokens, by other tokens or by nothing, after a register and the data    *)
(* memory were written.                                                    *)
(***************************************************************************)
UnknownLines == <<
    <<"A","D","D","I"," ","x","1",","," ","x","0",","," ","7">>,
    <<"S","W"," ","x","1",","," ","x","1",","," ","4">>,
    <<"B","E","Q"," ","x","1",","," ","x","0",","," ","8">>,
    <<"N","O","P">>,
    <<"J"," ","a","b","c",","," ","(","x","9","9",")">>,
    <<"A","D","D","X"," ","x","1",","," ","x","1",","," ","x","1">>,
    <<"S","W","A","P"," ","x","1">>,
    <<"A","D","D",".","W"," ","x","0",","," ","1">> >>

InitUnknown ==
    /\ editor \in TextsOf(UnknownLines, MaxLines)
    /\ Constructed

SpecUnknown == InitUnknown /\ [][Next]_vars

(***************************************************************************)
(* Programs that multiply: small and large operands of either sign, and    *)
(* products below and beyond 2^53.                                         *)
(***************************************************************************)
MultLines == <<
    <<"A","D","D","I"," ","x","1",","," ","x","0",","," ","1","2","3","4","5","6","7","8","9">>,
    <<"A","D","D","I"," ","x","2",","," ","x","0",","," ","-","2","1","4","7","4","8","3","6","4","8">>,
    <<"A","D","D","I"," ","x","2",","," ","x","0",","," ","2","1","4","7","4","8","3","6","4","7">>,
    <<"A","D","D","I"," ","x","1",","," ","x","0",","," ","-","7">>,
    <<"M","U","L","T"," ","x","3",","," ","x","1",","," ","x","1">>,
    <<"M","U","L","T"," ","x","3",","," ","x","1",","," ","x","2">>,
    <<"M","U","L","T"," ","x","3",","," ","x","2",","," ","x","2">>,
    <<"M","U","L","T"," ","x","0",","," ","x","1",","," ","x","2">> >>

InitMult ==
    /\ editor \in TextsOf(MultLines, MaxLines)
    /\ Constructed

SpecMult == InitMult /\ [][Next]_vars

(***************************************************************************)
(* Programs that fault after a register and the data memory were written:  *)
(* each kind of instruction that reads a register, with an operand missing.*)
(***************************************************************************)
FaultLines == <<
    <<"A","D","D","I"," ","x","1",","," ","x","0",","," ","7">>,
    <<"S","W"," ","x","1",","," ","x","1",","," ","4">>,
    <<"A","D","D"," ","x","3",","," ","x","1">>,
    <<"A","D","D","I"," ","x","2">>,
    <<"L","W"," ","x","3">>,
    <<"S","W"," ","x","1">>,
    <<"P","R","I","N","T">>,
    <<"M","U","L","T"," ","x","1">> >>

InitFault ==
    /\ editor \in TextsOf(FaultLines, MaxLines)
    /\ Constructed

SpecFault == InitFault /\ [][Next]_vars

(***************************************************************************)
(* The two scripts given the same texts and the same calls: every kind of  *)
(* instruction, complete and with operands missing from the left and from  *)
(* the right.                                                              *)
(***************************************************************************)
BothLines == <<
    <<"A","D","D","I"," ","x","1",","," ","x","0",","," ","7">>,
    <<"S","W"," ","x","1",","," ","x","1",","," ","4">>,
    <<"L","W"," ","x","3",","," ","4","(","x","1",")">>,
    <<"L","W"," ","x","3">>,
    <<"A","D","D"," ","x","3",","," ","x","1">>,
    <<"S","L","T","I"," ","x","2",","," ","x","1">>,
    <<"s","u","b"," ","x","2",","," ","x","1",","," ","x","3">>,
    <<"M","U","L","T">> >>

InitBoth ==
    /\ editor \in TextsOf(BothLines, MaxLines)
    /\ Constructed

NextBoth == BothLoad \/ BothStep

SpecBoth == InitBoth /\ [][NextBoth]_vars

(***************************************************************************)
(* The Step button and the run loops on one loaded program: a text is      *)
(* loaded once, btn-step and btn-run are clicked in any order and the      *)
(* intervals fire in any order.  A text has lines that succeed and a line  *)
(* that faults.                                                            *)
(***************************************************************************)
MaxRunLines == 3

RunLines == <<
    <<"A","D","D","I"," ","x","1",","," ","x","1",","," ","1">>,
    <<"S","W"," ","x","1",","," ","x","0",","," ","4">>,
    <<"A","D","D"," ","x","3">> >>

InitRun ==
    /\ editor \in TextsOf(RunLines, MaxRunLines)
    /\ Constructed

\* the one click on btn-load: nothing was loaded yet
LoadOnce ==
    /\ logs = <<>>
    /\ Load

NextRun ==
    \/ LoadOnce
    \/ ClickStep
    \/ ClickRun
    \/ \E i \in 1..MaxLoops : Tick(i)

SpecRun == InitRun /\ [][NextRun]_vars

\* the interval of the i-th click on btn-run is set
LoopActive(i) == i <= Len(loops) /\ loops[i].active

\* a firing of interval i as the record of its loop shows it: Tick(i) is the
\* only step that changes the record this way, and it can be taken exactly
\* when the interval is set
Fires(i) ==
    /\ LoopActive(i)
    /\ loops' \in {[loops EXCEPT ![i] = Ticked(loops[i], result)] : result \in BOOLEAN}

\* an interval that is not cleared keeps firing, every 50 ms
SpecRunFair == SpecRun /\ \A i \in 1..MaxLoops : WF_loops(Fires(i))

(***************************************************************************)
(* One run loop on a program longer than its safety limit: RunLimit + 1     *)
(* lines that each add 1 to x1 are loaded, btn-run is clicked once and its *)
(* interval fires.  The run is followed from the load and from the state   *)
(* it is in when the loop has counted to its limit, written down in closed *)
(* form: the run from the load goes through that state, so the states of   *)
(* the specification are those of the one run.                             *)
(***************************************************************************)
LongLine == <<"A","D","D","I"," ","x","1",","," ","x","1",","," ","1">>

LongLength == RunLimit + 1

\* n copies of a line, one per line of the text
RepeatedText(line, n) ==
    [i \in 1..(n * (Len(line) + 1) - 1) |->
        IF i % (Len(line) + 1) = 0 THEN "\n" ELSE line[i % (Len(line) + 1)]]

\* what loadProgram pushes for that text: the line at 0, 4, 8, ...
RepeatedMemory(line, n) ==
    [k \in 1..n |->
        [addr   |-> PcStep * (k - 1),
         text   |-> line,
         binary |-> generateFakeBinary(line)]]

\* the state a call starts from after s lines of the long program ran
LongHere(s) ==
    IF s = 0
    THEN [pc |-> 0, regs |-> ZeroRegs, mem |-> EmptyMemory, halted |-> TRUE,
          ninstr |-> 0, last |-> ""]
    ELSE [pc |-> PcStep * (s - 1), regs |-> [ZeroRegs EXCEPT ![1] = s - 1],
          mem |-> EmptyMemory, halted |-> FALSE, ninstr |-> LongLength,
          last |-> IF s = 1 THEN "loaded" ELSE "step"]

\* the page after the long text was put in the editor and loaded and the
\* first s lines ran
LongRunAt(s) ==
    /\ editor = RepeatedText(LongLine, LongLength)
    /\ pc = PcStep * s
    /\ regs = [ZeroRegs EXCEPT ![1] = s]
    /\ instrMemory = RepeatedMemory(LongLine, LongLength)
    /\ dataMemory = EmptyMemory
    /\ halted = FALSE
    /\ logs = <<LogLoaded>> \o [k \in 1..s |-> LogStep(PcStep * (k - 1), LongLine, NoNote)]
    /\ ret = IF s = 0 THEN RetLoad ELSE RetExecuted(generateFakeBinary(LongLine))
    /\ before = LongHere(s)
    /\ hist = <<>>
    /\ script = ScriptReset

\* the long program loaded, or run by one loop that counted up to its limit
InitRunLong ==
    \/ LongRunAt(0) /\ loops = <<>>
    \/ LongRunAt(RunLimit)
          /\ loops = <<[active |-> TRUE, steps |-> RunLimit, calls |-> RunLimit]>>

\* one activation of the run mode
ClickRunOnce ==
    /\ loops = <<>>
    /\ ClickRun

NextRunLong == ClickRunOnce \/ \E i \in 1..MaxLoops : Tick(i)

SpecRunLong == InitRunLong /\ [][NextRunLong]_vars

(***************************************************************************)
(* What the calls of step() since the last loadProgram did.                *)
(***************************************************************************)
\* the state the k-th call of step() ended in
PostOf(k) ==
    IF k < Len(hist)
    THEN hist[k + 1]
    ELSE [pc |-> pc, regs |-> regs, mem |-> dataMemory, halted |-> halted,
          nlogs |-> Len(logs), ok |-> ret.ok]

Calls == 1..Len(hist)

\* the k-th call fetched an instruction: its text and its pieces
Fetched(k) == ~hist[k].halted /\ FindInstr(instrMemory, hist[k].pc) # 0

TextOf(k) == instrMemory[FindInstr(instrMemory, hist[k].pc)].text

PartsOf(k) == Decode(TextOf(k))

OpOf(k) == ToUpperCase(PartsOf(k)[1])

\* a recognised mnemonic with fewer register operands than it reads
MissingOperand(text) ==
    LET parts == Decode(text)
        op    == ToUpperCase(parts[1])
    IN  \/ op \in RTypeOps /\ Len(parts) < 4
        \/ op \in ITypeOps \cup {OpLW, OpSW} /\ Len(parts) < 3
        \/ op = OpPRINT /\ Len(parts) < 2

\* an immediate or offset token that is there and is no number
NonNumericImmediate(text) ==
    LET parts == Decode(text)
        op    == ToUpperCase(parts[1])
    IN  /\ op \in ITypeOps \cup {OpLW, OpSW}
        /\ Len(parts) >= 4
        /\ parts[4] # <<>>
        /\ ParseInt(PartAt(parts, 3)) = NaN

(***************************************************************************)
(* C1: register 0 is 0 in every reachable state, whatever the program and  *)
(* whatever token names the destination.                                   *)
(***************************************************************************)
C1_RegisterZero == regs[0] = 0

\* an ADDI whose destination resolves to register 0 has just added a value
\* other than zero and returned a result
C1_Witness ==
    /\ ret.call = "step" /\ ret.ok
    /\ OpOf(Len(hist)) = OpADDI
    /\ getRegIndex(PartAt(PartsOf(Len(hist)), 1)).idx = Zero
    /\ regs[1] = 7

(***************************************************************************)
(* C2: an ADDI, SLTI, LW or SW whose immediate token is no number makes    *)
(* step() fault: it returns false, halted becomes true and pc is not       *)
(* advanced.                                                               *)
(***************************************************************************)
C2_NonNumericFaults ==
    \A k \in Calls :
        (Fetched(k) /\ NonNumericImmediate(TextOf(k)))
            => /\ ~hist[k].ok
               /\ PostOf(k).halted
               /\ PostOf(k).pc = hist[k].pc

(***************************************************************************)
(* C3: pc is 4 times the number of calls of step() that returned a result  *)
(* since the last loadProgram, and a call that returned false left pc as   *)
(* it was.                                                                 *)
(***************************************************************************)
C3_PcCountsSuccesses ==
    /\ pc = PcStep * Cardinality({k \in Calls : hist[k].ok})
    /\ \A k \in Calls : ~hist[k].ok => PostOf(k).pc = hist[k].pc

\* two results, then a fault, then a call on the halted machine
C3_Witness ==
    /\ Len(hist) = 4
    /\ hist[1].ok /\ hist[2].ok /\ ~hist[3].ok /\ ~hist[4].ok
    /\ Fetched(3)
    /\ pc = 8

(***************************************************************************)
(* C4: a call of step() returns false exactly when the machine is halted   *)
(* as the call ends; a fetch miss and a fault both halt and return false.  *)
(***************************************************************************)
C4_FalseIffHalted ==
    /\ ret.call = "step" <=> Len(hist) > 0
    /\ \A k \in Calls :
        /\ hist[k].ok <=> ~PostOf(k).halted
        /\ (~hist[k].halted /\ ~Fetched(k)) => (~hist[k].ok /\ PostOf(k).halted)
        /\ (Fetched(k) /\ MissingOperand(TextOf(k))) => (~hist[k].ok /\ PostOf(k).halted)
    /\ Len(hist) > 0 => (ret.ok <=> hist[Len(hist)].ok)

\* a result, then a fault in one load; the last call was the fault
C4_Witness ==
    /\ Len(hist) = 2
    /\ hist[1].ok
    /\ Fetched(2) /\ MissingOperand(TextOf(2))
    /\ ret = RetFalse /\ halted

(***************************************************************************)
(* C5: on a halted machine a call of step() returns false and leaves pc,   *)
(* the registers, the data memory, the instruction list and the trace as   *)
(* they were; the machine stays halted until loadProgram.                  *)
(***************************************************************************)
C5_HaltedAbsorbing ==
    [][(halted /\ ret'.call = "step")
          => (/\ ret' = RetFalse
              /\ halted'
              /\ UNCHANGED <<pc, regs, instrMemory, dataMemory, logs>>)]_vars

\* step() was called on a machine halted with registers and memory written
C5_Witness ==
    /\ ret.call = "step"
    /\ before.halted
    /\ pc > 0 /\ regs # ZeroRegs /\ dataMemory # EmptyMemory
    /\ Len(hist) >= 2 /\ hist[Len(hist) - 1].halted

(***************************************************************************)
(* C6: with N >= 1 instructions loaded and none of them faulting, the      *)
(* first N calls of step() return a result, and call N+1 finds nothing at  *)
(* pc = 4N, returns false and halts.                                       *)
(***************************************************************************)
NoneFaults == \A i \in 1..Len(instrMemory) : ~MissingOperand(instrMemory[i].text)

C6_RunsToTheEnd ==
    (Len(instrMemory) >= 1 /\ NoneFaults)
        => \A k \in Calls :
            /\ k <= Len(instrMemory) => (hist[k].ok /\ hist[k].pc = PcStep * (k - 1))
            /\ k = Len(instrMemory) + 1
                 => /\ hist[k].pc = PcStep * Len(instrMemory)
                    /\ ~hist[k].halted /\ ~Fetched(k)
                    /\ ~hist[k].ok
                    /\ PostOf(k).halted

\* two instructions and a comment line: both ran and the third call ended
C6_Witness ==
    /\ Len(instrMemory) = 2
    /\ Len(SplitLines(editor)) = 3
    /\ NoneFaults
    /\ Len(hist) = 3
    /\ halted /\ pc = 8

(***************************************************************************)
(* C7: loadProgram, called in any state, leaves all registers 0, the data  *)
(* memory empty, pc 0 and the instruction list made of the accepted lines  *)
(* of the new text only; halted is false exactly when a line was accepted. *)
(***************************************************************************)
\* a line with a character that is no white space, the first of them not #
IsAccepted(line) ==
    \E i \in 1..Len(line) :
        /\ ~IsSpace(line[i])
        /\ line[i] # "#"
        /\ \A j \in 1..(i - 1) : IsSpace(line[j])

AcceptedLines(text) == SelectSeq(SplitLines(text), IsAccepted)

C7_LoadDiscards ==
    ret.call = "loadProgram"
        => /\ regs = ZeroRegs
           /\ dataMemory = EmptyMemory
           /\ pc = 0
           /\ Len(instrMemory) = Len(AcceptedLines(editor))
           /\ \A i \in 1..Len(instrMemory) :
                 /\ instrMemory[i].text = StrTrim(AcceptedLines(editor)[i])
                 /\ instrMemory[i].addr = PcStep * (i - 1)
           /\ halted <=> AcceptedLines(editor) = <<>>

\* a machine halted by a fault, with an entry in the data memory and two
\* instructions, has just been loaded with a text of one instruction
C7_Witness ==
    /\ ret.call = "loadProgram"
    /\ before.halted /\ before.last = "error"
    /\ before.pc > 0 /\ before.mem # EmptyMemory
    /\ before.ninstr = 2
    /\ Len(instrMemory) = 1 /\ ~halted

(***************************************************************************)
(* Store and load back.                                                    *)
(***************************************************************************)
\* the value of the register a token names, in the registers r
ValueOf(r, token) == RegRead(r, getRegIndex([defined |-> TRUE, str |-> token]).idx)

IndexOf(token) == getRegIndex([defined |-> TRUE, str |-> token]).idx

\* call k executed SW x_a, x_b, k and call k+1 executed LW x_c, x_b, k
RoundTrip(k) ==
    /\ k + 1 <= Len(hist)
    /\ Fetched(k) /\ hist[k].ok /\ OpOf(k) = OpSW /\ Len(PartsOf(k)) >= 4
    /\ Fetched(k + 1) /\ hist[k + 1].ok /\ OpOf(k + 1) = OpLW /\ Len(PartsOf(k + 1)) >= 4
    /\ PartsOf(k)[3] = PartsOf(k + 1)[3]
    /\ PartsOf(k)[4] = PartsOf(k + 1)[4]

\* after the load x_c holds what x_a held at the store
ReadBack(k) ==
    ValueOf(PostOf(k + 1).regs, PartsOf(k + 1)[2]) = ValueOf(hist[k].regs, PartsOf(k)[2])

(***************************************************************************)
(* C8 as stated: SW x_a, x_b, k then LW x_c, x_b, k leaves in x_c the      *)
(* value x_a had at the store, for any register tokens and any offset.     *)
(***************************************************************************)
C8_RoundTripAnyToken == \A k \in Calls : RoundTrip(k) => ReadBack(k)

(***************************************************************************)
(* C8 amended: the same when x_a names a register of the file and x_c one  *)
(* of registers 1 to 31; x_b and the offset are any tokens.                *)
(***************************************************************************)
C8_RoundTrip ==
    \A k \in Calls :
        (/\ RoundTrip(k)
         /\ IsRegIndex(IndexOf(PartsOf(k)[2]))
         /\ IsRegIndex(IndexOf(PartsOf(k + 1)[2]))
         /\ IndexOf(PartsOf(k + 1)[2]) # Zero)
            => ReadBack(k)

\* 99 was stored from x1 at 99 + 4 and the next call loaded it into x3
C8_Witness ==
    /\ Len(hist) = 3
    /\ RoundTrip(2)
    /\ hist[2].regs[1] = 99
    /\ IndexOf(PartsOf(3)[2]) = FromInt32(3)
    /\ regs[3] = 99
    /\ dataMemory # EmptyMemory

(***************************************************************************)
(* What the stores and loads of a run did, told from the calls.            *)
(***************************************************************************)
\* an optional minus sign and decimal digits
IsIntegerToken(token) ==
    LET digits == IF token # <<>> /\ token[1] = "-" THEN Tail(token) ELSE token
    IN  digits # <<>> /\ \A i \in 1..Len(digits) : IsDigit(digits[i])

Stored(k) == Fetched(k) /\ hist[k].ok /\ OpOf(k) = OpSW

LoadedWord(k) == Fetched(k) /\ hist[k].ok /\ OpOf(k) = OpLW

\* both register tokens of a store or load name registers of the file and
\* the offset is an integer
InDomain(k) ==
    /\ Len(PartsOf(k)) >= 4
    /\ IsRegIndex(IndexOf(PartsOf(k)[2]))
    /\ IsRegIndex(IndexOf(PartsOf(k)[3]))
    /\ IsIntegerToken(PartsOf(k)[4])

\* the effective address of the store or load of call k: value(rs1) + offset
AddrOf(k) == JsAdd(ValueOf(hist[k].regs, PartsOf(k)[3]), ParseInt(PartAt(PartsOf(k), 3)))

\* the stores to address a before call k
StoresTo(a, k) == {j \in 1..(k - 1) : Stored(j) /\ AddrOf(j) = a}

LatestOf(S) == CHOOSE j \in S : \A i \in S : i <= j

\* what the most recent store to the address of call k wrote, or 0
LastStored(k) ==
    IF StoresTo(AddrOf(k), k) = {}
    THEN Zero
    ELSE ValueOf(hist[LatestOf(StoresTo(AddrOf(k), k))].regs,
                 PartsOf(LatestOf(StoresTo(AddrOf(k), k)))[2])

\* the value the load of call k read, as its trace line tells it
ReadBy(k) == logs[hist[k].nlogs + 1].note.val

(***************************************************************************)
(* C9: only SW changes the data memory.  With register indices 0 to 31 and *)
(* integer offsets, LW reads what the most recent SW to its address wrote  *)
(* since the load, or 0, and adds no entry; every other call leaves the    *)
(* data memory as it was; two LW of one address with no SW between them    *)
(* read the same value.                                                    *)
(***************************************************************************)
\* the call is the one that just ended: every call is the last one in the
\* state it ended in
C9_Holds(k) ==
    /\ ~Stored(k) => PostOf(k).mem = hist[k].mem
    /\ (LoadedWord(k) /\ InDomain(k) /\ \A j \in 1..(k - 1) : Stored(j) => InDomain(j))
          => /\ ReadBy(k) = LastStored(k)
             /\ IndexOf(PartsOf(k)[2]) # Zero
                   => ValueOf(PostOf(k).regs, PartsOf(k)[2]) = LastStored(k)
    /\ (LoadedWord(k) /\ InDomain(k))
          => \A j \in 1..(k - 1) :
                (/\ LoadedWord(j) /\ InDomain(j)
                 /\ AddrOf(j) = AddrOf(k)
                 /\ \A i \in (j + 1)..(k - 1) : ~Stored(i))
                    => ReadBy(j) = ReadBy(k)

C9_OnlyStoresWrite == Len(hist) > 0 => C9_Holds(Len(hist))

\* 0 then 4 were stored at address 8, and the fourth call loaded 4 from it
C9_Witness ==
    /\ Len(hist) = 4
    /\ Stored(1) /\ Stored(3) /\ LoadedWord(4)
    /\ AddrOf(1) = FromInt32(8) /\ AddrOf(3) = FromInt32(8) /\ AddrOf(4) = FromInt32(8)
    /\ hist[2].mem[FromInt32(8)] = Zero
    /\ ReadBy(4) = FromInt32(4)
    /\ regs[3] = 4
    /\ DOMAIN dataMemory = {FromInt32(8)}

(***************************************************************************)
(* Sums and differences modulo 2^32, computed on integers of the signed    *)
(* 32-bit range without leaving it.                                        *)
(***************************************************************************)
MaxInt32 == 2^30 + (2^30 - 1)

MinInt32 == (-MaxInt32) - 1

WrapAdd(a, b) ==
    IF a >= 0 /\ b >= 0 /\ a > MaxInt32 - b
    THEN ((a - MaxInt32) - 1) + ((b - MaxInt32) - 1)
    ELSE IF a < 0 /\ b < 0 /\ a < MinInt32 - b
    THEN ((a + MaxInt32) + 1) + ((b + MaxInt32) + 1)
    ELSE a + b

WrapSub(a, b) ==
    IF a >= 0 /\ b < 0 /\ a > MaxInt32 + b
    THEN ((a - MaxInt32) - 1) - ((b + MaxInt32) + 1)
    ELSE IF a < 0 /\ b >= 0 /\ a < MinInt32 + b
    THEN ((a + MaxInt32) + 1) - ((b - MaxInt32) - 1)
    ELSE a - b

DecimalOf(c) == CHOOSE d \in 0..9 : <<"0","1","2","3","4","5","6","7","8","9">>[d + 1] = c

\* the number a string of decimal digits writes, modulo 2^32, as its high
\* and low 16 bits
RECURSIVE HalvesOf(_, _, _)
HalvesOf(digits, high, low) ==
    IF digits = <<>>
    THEN <<high, low>>
    ELSE HalvesOf(Tail(digits),
                  (high * 10 + (low * 10 + DecimalOf(Head(digits))) \div 65536) % 65536,
                  (low * 10 + DecimalOf(Head(digits))) % 65536)

SignedOf(halves) ==
    IF halves[1] >= 32768
    THEN (halves[1] - 65536) * 65536 + halves[2]
    ELSE halves[1] * 65536 + halves[2]

\* the integer a token writes, reduced modulo 2^32 into the signed range
ImmWord(token) ==
    IF token[1] = "-"
    THEN (IF SignedOf(HalvesOf(Tail(token), 0, 0)) = MinInt32
          THEN MinInt32
          ELSE 0 - SignedOf(HalvesOf(Tail(token), 0, 0)))
    ELSE SignedOf(HalvesOf(token, 0, 0))

DigitsOf(token) == IF token[1] = "-" THEN Len(token) - 1 ELSE Len(token)

\* call k fetched an ADD, SUB or ADDI whose register tokens name registers of
\* the file, the destination not register 0, and whose immediate is an integer
ArithCall(k) ==
    /\ Fetched(k)
    /\ OpOf(k) \in {OpADD, OpSUB, OpADDI}
    /\ Len(PartsOf(k)) >= 4
    /\ IsRegIndex(IndexOf(PartsOf(k)[2])) /\ IndexOf(PartsOf(k)[2]) # Zero
    /\ IsRegIndex(IndexOf(PartsOf(k)[3]))
    /\ IF OpOf(k) = OpADDI
       THEN IsIntegerToken(PartsOf(k)[4])
       ELSE IsRegIndex(IndexOf(PartsOf(k)[4]))

SourceOf(k, i) == hist[k].regs[RegNo(IndexOf(PartsOf(k)[i]))]

\* the mathematical result of call k modulo 2^32
WrappedResult(k) ==
    IF OpOf(k) = OpADD THEN WrapAdd(SourceOf(k, 3), SourceOf(k, 4))
    ELSE IF OpOf(k) = OpSUB THEN WrapSub(SourceOf(k, 3), SourceOf(k, 4))
    ELSE WrapAdd(SourceOf(k, 3), ImmWord(PartsOf(k)[4]))

\* call k returned a result, did not halt and wrote the wrapped result to rd
Wrapped(k) ==
    /\ hist[k].ok
    /\ ~PostOf(k).halted
    /\ PostOf(k).regs[RegNo(IndexOf(PartsOf(k)[2]))] = WrappedResult(k)

(***************************************************************************)
(* C10 as stated: ADD, SUB and ADDI write to rd the mathematical sum or    *)
(* difference modulo 2^32, in the signed range, for all 32-bit sources and *)
(* all integer immediates, and the step does not halt.                     *)
(***************************************************************************)
C10_WrapsAnyImmediate ==
    Len(hist) > 0 => (ArithCall(Len(hist)) => Wrapped(Len(hist)))

(***************************************************************************)
(* C10 amended: the same for immediates of at most 15 decimal digits.      *)
(***************************************************************************)
C10_Wraps ==
    Len(hist) > 0 =>
        ((/\ ArithCall(Len(hist))
          /\ OpOf(Len(hist)) = OpADDI => DigitsOf(PartsOf(Len(hist))[4]) <= 15)
            => Wrapped(Len(hist)))

\* 2147483647 was added to itself and the call wrote -2 and did not halt
C10_Witness ==
    /\ Len(hist) = 2
    /\ ArithCall(2) /\ OpOf(2) = OpADD
    /\ hist[2].regs[1] = MaxInt32
    /\ ret.ok /\ ~halted
    /\ regs[3] = -2

(***************************************************************************)
(* Signed comparison of a register value with a register value or with the *)
(* integer a token writes, computed on integers of the 32-bit range.       *)
(***************************************************************************)
\* the number a string of decimal digits writes as <<n \div 10^5, n % 10^5>>,
\* the first capped at 99999: a capped pair is beyond the 32-bit range
RECURSIVE PairOf(_, _, _)
PairOf(digits, high, low) ==
    IF digits = <<>>
    THEN <<high, low>>
    ELSE PairOf(Tail(digits),
                IF high * 10 + (low * 10 + DecimalOf(Head(digits))) \div 100000 > 99999
                THEN 99999
                ELSE high * 10 + (low * 10 + DecimalOf(Head(digits))) \div 100000,
                (low * 10 + DecimalOf(Head(digits))) % 100000)

\* n < the number of the pair, for n in 0 .. 2^31-1
NatLessPair(n, pair) ==
    \/ n \div 100000 < pair[1]
    \/ n \div 100000 = pair[1] /\ n % 100000 < pair[2]

\* v < the integer the token writes, for v in -2^31 .. 2^31-1
IntLessToken(v, token) ==
    IF token[1] = "-"
    THEN v < 0 /\ ~NatLessPair(-(v + 1), PairOf(Tail(token), 0, 0))
    ELSE v < 0 \/ NatLessPair(v, PairOf(token, 0, 0))

\* call k fetched an SLT or SLTI with its operands, the destination one of
\* registers 1 to 31, the immediate an integer
CompareCall(k) ==
    /\ Fetched(k)
    /\ OpOf(k) \in {OpSLT, OpSLTI}
    /\ Len(PartsOf(k)) >= 4
    /\ IsRegIndex(IndexOf(PartsOf(k)[2])) /\ IndexOf(PartsOf(k)[2]) # Zero
    /\ OpOf(k) = OpSLTI => IsIntegerToken(PartsOf(k)[4])

\* the source the i-th piece names is a register of the file
HasSource(k, i) == IsRegIndex(IndexOf(PartsOf(k)[i]))

\* value(rs1) is less than value(rs2) or than the immediate; a token that
\* names no register has no value and is less than nothing
IsLess(k) ==
    /\ HasSource(k, 3)
    /\ IF OpOf(k) = OpSLT
       THEN HasSource(k, 4) /\ SourceOf(k, 3) < SourceOf(k, 4)
       ELSE IntLessToken(SourceOf(k, 3), PartsOf(k)[4])

(***************************************************************************)
(* C11: SLT and SLTI write 1 to rd when value(rs1) is less than value(rs2) *)
(* or than the immediate under signed comparison, and 0 otherwise.         *)
(***************************************************************************)
C11_SetLessThan ==
    Len(hist) > 0 =>
        (CompareCall(Len(hist))
            => /\ hist[Len(hist)].ok
               /\ regs[RegNo(IndexOf(PartsOf(Len(hist))[2]))] = (IF IsLess(Len(hist)) THEN 1 ELSE 0))

\* x3 held 1, then SLT x3, x2, x1 compared 0 with -5 and wrote 0
C11_Witness ==
    /\ Len(hist) = 3
    /\ CompareCall(3) /\ OpOf(3) = OpSLT
    /\ hist[3].regs[3] = 1 /\ hist[3].regs[1] = -5 /\ hist[3].regs[2] = 0
    /\ PartsOf(3)[3] = <<"x","2">>
    /\ regs[3] = 0

(***************************************************************************)
(* C12: a step on an instruction whose mnemonic is none of ADD, SUB, AND,  *)
(* OR, SLT, MULT, SLL, ADDI, SLTI, LW, SW, PRINT returns a result, moves   *)
(* pc on by 4, does not halt and leaves the registers and the data memory  *)
(* as they were, whatever follows the mnemonic.                            *)
(***************************************************************************)
KnownOps == RTypeOps \cup ITypeOps \cup {OpLW, OpSW, OpPRINT}

UnknownCall(k) == Fetched(k) /\ OpOf(k) \notin KnownOps

C12_UnknownIsNoOp ==
    Len(hist) > 0 =>
        (UnknownCall(Len(hist))
            => /\ ret.ok
               /\ pc = hist[Len(hist)].pc + PcStep
               /\ ~halted
               /\ regs = hist[Len(hist)].regs
               /\ dataMemory = hist[Len(hist)].mem)

\* with 7 in x1 and an entry in the data memory, NOP was the third step
C12_Witness ==
    /\ Len(hist) = 3
    /\ UnknownCall(3) /\ Len(PartsOf(3)) = 1
    /\ regs[1] = 7 /\ dataMemory # EmptyMemory
    /\ ret.ok /\ pc = 12 /\ ~halted

(***************************************************************************)
(* The entries step() adds to the trace.                                   *)
(***************************************************************************)
\* the entry the k-th call added, when it added one
EntryOf(k) == logs[hist[k].nlogs + 1]

\* the k-th call, made on a machine not halted, added one entry, after the
\* entries of the calls before it
OneEntry(k) ==
    /\ PostOf(k).nlogs = hist[k].nlogs + 1
    /\ hist[k].nlogs + 1 <= Len(logs)

ShowsPc(k) == "pc" \in EntryOf(k).shown /\ EntryOf(k).pc = hist[k].pc

ShowsText(k) == "text" \in EntryOf(k).shown /\ EntryOf(k).text = TextOf(k)

(***************************************************************************)
(* C13 as stated: every call of step() on a machine not halted, succeeding *)
(* or faulting, adds exactly one entry to the trace, in call order, which  *)
(* holds pc and the source text of the instruction being executed.         *)
(***************************************************************************)
C13_EntryShowsPcAndText ==
    \A k \in Calls :
        ~hist[k].halted
            => /\ OneEntry(k)
               /\ Fetched(k) => (ShowsPc(k) /\ ShowsText(k))

(***************************************************************************)
(* C13 amended: every such call adds exactly one entry, in call order; the *)
(* entry of a call that succeeds holds pc and the source text, the entry   *)
(* of a call that faults holds pc and no source text, and the entry of a   *)
(* call that finds no instruction at pc holds neither.                     *)
(***************************************************************************)
C13_OneEntryPerCall ==
    \A k \in Calls :
        IF hist[k].halted
        THEN PostOf(k).nlogs = hist[k].nlogs
        ELSE /\ OneEntry(k)
             /\ hist[k].ok => (ShowsPc(k) /\ ShowsText(k))
             /\ (Fetched(k) /\ ~hist[k].ok)
                   => (ShowsPc(k) /\ "text" \notin EntryOf(k).shown)
             /\ ~Fetched(k) => EntryOf(k).shown = {}

\* two steps succeeded, the third faulted, a fourth call found the machine
\* halted: three entries after that of the load
C13_Witness ==
    /\ Len(hist) = 4
    /\ hist[1].ok /\ hist[2].ok
    /\ Fetched(3) /\ ~hist[3].ok
    /\ hist[4].halted
    /\ Len(logs) = 4
    /\ logs[4].kind = "error" /\ logs[4].pc = 8

(***************************************************************************)
(* Products: the low 32 bits of the mathematical product, byte by byte.    *)
(***************************************************************************)
\* byte i of the two's complement word of v
ByteOf(v, i) == (v \div (256 ^ i)) % 256

\* the sum of the byte products of weight 256^k, from byte i of a on
RECURSIVE ColumnSum(_, _, _, _)
ColumnSum(a, b, k, i) ==
    IF i > k THEN 0 ELSE ByteOf(a, i) * ByteOf(b, k - i) + ColumnSum(a, b, k, i + 1)

\* the bytes k to 3 of the product, given the carry into byte k
RECURSIVE ProductBytes(_, _, _, _)
ProductBytes(a, b, k, carry) ==
    IF k > 3 THEN <<>>
    ELSE <<(ColumnSum(a, b, k, 0) + carry) % 256>>
         \o ProductBytes(a, b, k + 1, (ColumnSum(a, b, k, 0) + carry) \div 256)

\* the signed word of four bytes, lowest first
WordOfBytes(bs) ==
    bs[1] + 256 * bs[2] + 65536 * bs[3]
    + 16777216 * (IF bs[4] >= 128 THEN bs[4] - 256 ELSE bs[4])

\* the product of a and b truncated to its low 32 bits, as a signed word
Product32(a, b) == WordOfBytes(ProductBytes(a, b, 0, 0))

\* call k fetched a MULT whose register tokens name registers of the file,
\* the destination not register 0
MultCall(k) ==
    /\ Fetched(k)
    /\ OpOf(k) = OpMULT
    /\ Len(PartsOf(k)) >= 4
    /\ IsRegIndex(IndexOf(PartsOf(k)[2])) /\ IndexOf(PartsOf(k)[2]) # Zero
    /\ IsRegIndex(IndexOf(PartsOf(k)[3]))
    /\ IsRegIndex(IndexOf(PartsOf(k)[4]))

(***************************************************************************)
(* C15: MULT writes to rd the mathematical product of its two sources      *)
(* truncated to its low 32 bits as a signed word, for all pairs of signed  *)
(* 32-bit operands, products of more than 53 bits included.                *)
(***************************************************************************)
C15_MultExact ==
    Len(hist) > 0 =>
        (MultCall(Len(hist))
            => /\ hist[Len(hist)].ok
               /\ regs[RegNo(IndexOf(PartsOf(Len(hist))[2]))]
                    = Product32(SourceOf(Len(hist), 3), SourceOf(Len(hist), 4)))

\* the same for the products the trace shows to be small
MultSmallExact ==
    Len(hist) > 0 =>
        ((/\ MultCall(Len(hist))
          /\ SourceOf(Len(hist), 3) \in -65536..65536)
            => regs[RegNo(IndexOf(PartsOf(Len(hist))[2]))]
                    = Product32(SourceOf(Len(hist), 3), SourceOf(Len(hist), 4)))

(***************************************************************************)
(* The shape of the data memory.                                           *)
(***************************************************************************)
\* a Number that is an integer: every Number of the model but NaN is
IsIntegerNumber(x) == IsNum(x)

\* a Number that is a signed 32-bit integer
IsInt32Number(x) == IsNum(x) /\ x = FromInt32(ToInt32(x))

(***************************************************************************)
(* C16: in every reachable state the data memory maps integer addresses to *)
(* signed 32-bit integers, also after an SW whose offset is not numeric or *)
(* whose source register index is 32 or more.                              *)
(***************************************************************************)
C16_MemoryIntToInt32 ==
    \A a \in DOMAIN dataMemory :
        /\ IsIntegerNumber(a)
        /\ IsInt32Number(dataMemory[a])

(***************************************************************************)
(* C17: a step that faults leaves the 32 registers, the data memory and pc *)
(* exactly as they were before the call; it halts the machine and appends  *)
(* its error entry to the trace.                                           *)
(***************************************************************************)
\* call k fetched an instruction and ended in the catch
FaultCall(k) == Fetched(k) /\ ~hist[k].ok

C17_FaultIsAtomic ==
    Len(hist) > 0 =>
        (FaultCall(Len(hist))
            => /\ regs = hist[Len(hist)].regs
               /\ dataMemory = hist[Len(hist)].mem
               /\ pc = hist[Len(hist)].pc
               /\ halted
               /\ Len(logs) = hist[Len(hist)].nlogs + 1
               /\ logs[Len(logs)].kind = "error")

\* x1 and the data memory were written, then the third call faulted on a
\* store without its base register
C17_Witness ==
    /\ Len(hist) = 3
    /\ FaultCall(3)
    /\ OpOf(3) = OpSW
    /\ regs[1] = 7
    /\ dataMemory # EmptyMemory
    /\ pc = 8
    /\ halted

(***************************************************************************)
(* C18: given the same program text and the same calls of loadProgram and  *)
(* step, the simulators of src/script.js and of src/unnamed/part_000 have  *)
(* the same pc, registers, data memory and halted flag after each call,    *)
(* and step() returns a result in one exactly when it does in the other.   *)
(***************************************************************************)
C18_VariantsAgree ==
    /\ script.pc = pc
    /\ script.regs = regs
    /\ script.dataMemory = dataMemory
    /\ script.halted = halted
    /\ script.ok = ret.ok

\* both wrote x1 and the data memory, and both faulted on the LW without a
\* base register, which script.js meets in parts[2].includes
C18_Witness ==
    /\ Len(hist) = 3
    /\ Fetched(3) /\ OpOf(3) = OpLW /\ Len(PartsOf(3)) = 2
    /\ ~ret.ok /\ ~script.ok
    /\ halted /\ script.halted
    /\ regs[1] = 7 /\ script.regs[1] = 7
    /\ dataMemory # EmptyMemory /\ script.dataMemory = dataMemory
    /\ pc = 8 /\ script.pc = 8

(***************************************************************************)
(* The run loops.                                                          *)
(***************************************************************************)
\* the instructions executed since the last loadProgram, as the trace has them
ExecutedEntries == SelectSeq(logs, LAMBDA entry : entry.kind = "step")

\* C14: one activation of the run mode calls step() at most 1000 times and so
\* executes at most 1000 instructions, also on a program with more than 1000
\* instructions
C14_AtMostLimitCalls ==
    \A i \in 1..Len(loops) :
        /\ loops[i].calls <= RunLimit
        /\ pc <= PcStep * RunLimit

\* checks the text and the memory of n copies against loadProgram
RepeatedAsLoaded ==
    \A n \in 1..4 : Assemble(RepeatedText(LongLine, n)) = RepeatedMemory(LongLine, n)

(***************************************************************************)
(* C19: however the clicks on btn-step and the firings of the intervals of *)
(* the run loops follow each other after a load, the instructions executed *)
(* are the first ones of the loaded program, in the order of their         *)
(* addresses, each once: the k-th instruction executed is the k-th of the  *)
(* program.                                                                *)
(***************************************************************************)
C19_ExecutesAPrefix ==
    /\ Len(ExecutedEntries) <= Len(instrMemory)
    /\ pc = PcStep * Len(ExecutedEntries)
    /\ \A k \in 1..Len(ExecutedEntries) :
          /\ ExecutedEntries[k].pc = instrMemory[k].addr
          /\ ExecutedEntries[k].text = instrMemory[k].text
          /\ ExecutedEntries[k].pc = PcStep * (k - 1)

\* two run loops are active and each made one call that executed an
\* instruction, and a click on btn-step executed one more: three
\* instructions in all
C19_Witness ==
    /\ Len(loops) = 2
    /\ loops[1] = [active |-> TRUE, steps |-> 1, calls |-> 1]
    /\ loops[2] = [active |-> TRUE, steps |-> 1, calls |-> 1]
    /\ Len(instrMemory) = 3
    /\ Len(ExecutedEntries) = 3
    /\ regs[1] = 3

(***************************************************************************)
(* C20: after loadProgram accepted N instructions, and without another     *)
(* load, at most N calls of step() return a result and the machine is      *)
(* halted after at most N + 1 calls; every run loop eventually clears its  *)
(* interval.  Each call on a machine that is not halted leaves one entry   *)
(* in the trace after the one of the load, so a machine that is not halted *)
(* has had Len(logs) - 1 calls since the load.                             *)
(***************************************************************************)
\* the load has happened
IsLoaded == logs # <<>>

\* at most N results, and not halted only with at most N calls made
EndsInTime ==
    IsLoaded =>
        /\ Len(ExecutedEntries) <= Len(instrMemory)
        /\ ~halted => Len(logs) - 1 <= Len(instrMemory)

C20_Terminates ==
    /\ []EndsInTime
    /\ \A i \in 1..MaxLoops : [](LoopActive(i) => <>(~LoopActive(i)))

\* one run loop ran a program of two instructions to its end: two calls
\* returned a result, the third found the end, halted the machine and
\* cleared the interval
C20_Witness ==
    /\ Len(instrMemory) = 2
    /\ Len(ExecutedEntries) = 2
    /\ halted
    /\ Len(logs) - 1 = 3
    /\ loops = <<[active |-> FALSE, steps |-> 2, calls |-> 3]>>

\* the steps that change the record of a loop as a firing does are the
\* firings of its interval
FiresIsTick ==
    [][\A i \in 1..MaxLoops : (Fires(i) <=> (LoopActive(i) /\ loops' # loops /\ Len(loops') = Len(loops)
                                              /\ loops'[i] # loops[i]))]_vars

=============================================================================
